---- MODULE Spec2Model ----
(***************************************************************************)
(* Model of the useFormButton hook of @formspree/react.                    *)
(*                                                                         *)
(* The hook body runs two precondition checks on every invocation, then    *)
(* registers an effect on the dependency list [formActionEndpoint, config].*)
(* The effect calls the global formbutton('create', {...}) with an object  *)
(* literal made of the action, the default configuration and the spread    *)
(* of the caller's config.                                                 *)
(*                                                                         *)
(* The model follows one mounted position of the hook in a host tree: an   *)
(* invocation of the hook body (Render), the flush of the effect that the  *)
(* invocation scheduled (RunEffect), the host page loading or removing the *)
(* global (SetCapability) and the host unmounting the component (Unmount). *)
(***************************************************************************)
EXTENDS Integers, Sequences, FiniteSets, TLC

\* ---------------------------------------------------------------------------
\* Bounds
\* ---------------------------------------------------------------------------

\* Number of successful invocations of the hook body that are followed.
MaxInvocations == 3

\* ---------------------------------------------------------------------------
\* JavaScript values
\* ---------------------------------------------------------------------------

Str(s) == [t |-> "string", v |-> s]

Undefined == [t |-> "undefined", v |-> ""]

\* The endpoint arguments a caller passes: two endpoints, the empty string and
\* a missing one (the cra-demo passes an environment variable that may be unset).
Endpoints ==
    { Str("https://formspree.io/f/endpoint1"),
      Str("https://formspree.io/f/endpoint2"),
      Str(""),
      Undefined }

\* `!formActionEndpoint`: undefined and the empty string are falsy.
FalsyOnlyUndefined(x) == x.t = "undefined"

Falsy(x) == x.t = "undefined" \/ (x.t = "string" /\ x.v = "")

\* What the global `formbutton` is bound to: nothing, a non-function, a function.
Capabilities == {"undefined", "object", "function"}

TypeofIsFunction(c) == c = "function"

\* ---------------------------------------------------------------------------
\* Errors
\* ---------------------------------------------------------------------------

NoError == "none"

MissingRuntimeCapability ==
    "formbutton is not defined. Please make sure to load the formbutton script at the end of the <body>...</body> section of your index.html file. See https://formspree.io/formbutton for more information."

InvalidArgument ==
    "formActionEndpoint is required. Please provide the endpoint to send the form data to (e.g. https://formspree.io/f/xyz)"

\* An error raised by the external initializer itself.
InitializerError == "error thrown by formbutton"

\* The two checks at the top of the hook body, in the order of the code.
PreconditionErrorEndpointFirst(cap, endpoint) ==
    IF Falsy(endpoint) THEN InvalidArgument
    ELSE IF ~TypeofIsFunction(cap) THEN MissingRuntimeCapability
    ELSE NoError

PreconditionError(cap, endpoint) ==
    IF ~TypeofIsFunction(cap) THEN MissingRuntimeCapability
    ELSE IF Falsy(endpoint) THEN InvalidArgument
    ELSE NoError

\* ---------------------------------------------------------------------------
\* Configuration objects
\* ---------------------------------------------------------------------------

\* A JavaScript object is a function from its own keys to their values.
EmptyObject == [k \in {} |-> FALSE]

DefaultFields ==
    << [type |-> "email", label |-> "Email:", name |-> "email",
        required |-> TRUE, placeholder |-> "yourbestemail@email.com"],
       [type |-> "textarea", label |-> "Message:", name |-> "message",
        placeholder |-> "What's on your mind?"],
       [type |-> "submit"] >>

DefaultStyles ==
    [title |-> [backgroundColor |-> "gray"],
     button |-> [backgroundColor |-> "gray"]]

\* The keys of the effect's object literal between `action` and `...config`.
DefaultConfig ==
    [title |-> "How can I help?",
     fields |-> DefaultFields,
     styles |-> DefaultStyles,
     initiallyVisible |-> FALSE]

\* The objects the caller holds and passes as `config`, by reference 1..2.
CallerObjects ==
    << [title |-> "Custom Title",
        styles |-> [title |-> [backgroundColor |-> "blue"]]],
       [action |-> Str("https://formspree.io/f/other"),
        title |-> "Contact Us",
        fields |-> << [type |-> "text", label |-> "Name:", name |-> "name",
                       required |-> TRUE],
                      [type |-> "submit"] >>,
        initiallyVisible |-> TRUE,
        loadGoogleFonts |-> TRUE] >>

CallerRefs == 1 .. Len(CallerObjects)

\* The `config` argument left out by the caller.
Omitted == 0

ConfigArgs == CallerRefs \cup {Omitted}

\* The object a reference points to; every object that is not the caller's
\* was built by the default parameter `config = {}`.
Content(ref) == IF ref \in CallerRefs THEN CallerObjects[ref] ELSE EmptyObject

\* `{...target, ...source}`: own keys of source replace those of target whole.
ObjectSpreadDeep(target, source) ==
    [k \in DOMAIN target \cup DOMAIN source |->
        IF k \in DOMAIN source
        THEN IF k = "fields" /\ k \in DOMAIN target
             THEN target[k] \o source[k]
             ELSE source[k]
        ELSE target[k]]

ObjectSpread(target, source) ==
    [k \in DOMAIN target \cup DOMAIN source |->
        IF k \in DOMAIN source THEN source[k] ELSE target[k]]

IntentUpdate == "update"

Intent == "create"

\* The object literal of the effect: action, then the defaults, then ...config.
EffectConfig(endpoint, config) ==
    ObjectSpread(ObjectSpread([action |-> endpoint], DefaultConfig), config)

\* ---------------------------------------------------------------------------
\* State
\* ---------------------------------------------------------------------------

VARIABLES
    capability,   \* what the global `formbutton` is bound to
    prevDeps,     \* dependency list stored by the last committed render
    pending,      \* the effect scheduled by the last render, not yet flushed
    calls,        \* the calls received by the external initializer, in order
    threw,        \* whether the call made for the latest invocation threw
    invoked,      \* the invocations of the hook body that returned, in order
    last,         \* the arguments of the latest invocation of the hook body
    thrown        \* the error raised by the latest invocation or effect

vars == <<capability, prevDeps, pending, calls, threw, invoked, last, thrown>>

Deps(endpoint, ref) == [endpoint |-> endpoint, ref |-> ref]

\* No dependency list is stored: the hook is not mounted.
NoDeps == Deps(Undefined, Omitted)

\* No effect is waiting to be flushed.
NoEffect == Deps(Undefined, Omitted)

Mounted == prevDeps # NoDeps

\* `config = {}`: a new object on every invocation that leaves config out,
\* distinct from every object still referenced (n invocations have returned).
SharedDefaultObject(arg, n) ==
    IF arg = Omitted THEN Len(CallerObjects) + 1 ELSE arg

DefaultParam(arg, n) ==
    IF arg = Omitted THEN Len(CallerObjects) + n + 1 ELSE arg

\* The host's comparison of the dependency list [formActionEndpoint, config]:
\* the endpoint by value, the config by reference; a mount always runs.
DepsChangedEndpointOnly(prev, next) ==
    \/ prev = NoDeps
    \/ prev.endpoint # next.endpoint

DepsChanged(prev, next) ==
    \/ prev = NoDeps
    \/ prev.endpoint # next.endpoint
    \/ prev.ref # next.ref

Init ==
    /\ capability \in Capabilities
    /\ prevDeps = NoDeps
    /\ pending = NoEffect
    /\ calls = << >>
    /\ threw = FALSE
    /\ invoked = << >>
    /\ last = [endpoint |-> Undefined, ref |-> Omitted, rerender |-> FALSE]
    /\ thrown = NoError

\* ---------------------------------------------------------------------------
\* Operations
\* ---------------------------------------------------------------------------

\* One invocation of useFormButton(endpoint, arg) by the host.  The host
\* flushes a scheduled effect before it renders again, and a render that
\* throws tears the tree down.
RenderMemoized(endpoint, arg) ==
    LET ref == DefaultParam(arg, Len(invoked))
        err == IF Mounted THEN NoError ELSE PreconditionError(capability, endpoint)
        next == Deps(endpoint, ref)
    IN  /\ pending = NoEffect
        /\ last' = [endpoint |-> endpoint, ref |-> ref, rerender |-> Mounted]
        /\ thrown' = err
        /\ IF err # NoError
           THEN /\ prevDeps' = NoDeps
                /\ UNCHANGED <<pending, invoked>>
           ELSE /\ Len(invoked) < MaxInvocations
                /\ prevDeps' = next
                /\ pending' = IF DepsChanged(prevDeps, next) THEN next ELSE NoEffect
                /\ invoked' = Append(invoked,
                       [endpoint |-> endpoint, ref |-> ref, mount |-> ~Mounted])
        /\ threw' = FALSE
        /\ UNCHANGED <<capability, calls>>

Render(endpoint, arg) ==
    LET ref == DefaultParam(arg, Len(invoked))
        err == PreconditionError(capability, endpoint)
        next == Deps(endpoint, ref)
    IN  /\ pending = NoEffect
        /\ last' = [endpoint |-> endpoint, ref |-> ref, rerender |-> Mounted]
        /\ thrown' = err
        /\ IF err # NoError
           THEN /\ prevDeps' = NoDeps
                /\ UNCHANGED <<pending, invoked>>
           ELSE /\ Len(invoked) < MaxInvocations
                /\ prevDeps' = next
                /\ pending' = IF DepsChanged(prevDeps, next) THEN next ELSE NoEffect
                /\ invoked' = Append(invoked,
                       [endpoint |-> endpoint, ref |-> ref, mount |-> ~Mounted])
        /\ threw' = FALSE
        /\ UNCHANGED <<capability, calls>>

\* The effect callback: one call of the global, whose error, if it throws,
\* leaves the effect uncaught (the host then tears the tree down).
RunEffectRetry(throws) ==
    LET call == [intent |-> Intent,
                 config |-> EffectConfig(pending.endpoint, Content(pending.ref))]
    IN  /\ pending # NoEffect
        /\ calls' = IF throws THEN calls \o <<call, call>> ELSE Append(calls, call)
        /\ threw' = throws
        /\ pending' = NoEffect
        /\ UNCHANGED <<capability, prevDeps, invoked, last, thrown>>

RunEffectFirst(throws) ==
    LET call == [intent |-> Intent,
                 config |-> EffectConfig(pending.endpoint, Content(pending.ref))]
    IN  /\ pending # NoEffect
        /\ calls' = <<call>> \o calls
        /\ threw' = throws
        /\ pending' = NoEffect
        /\ thrown' = IF throws THEN InitializerError ELSE thrown
        /\ prevDeps' = IF throws THEN NoDeps ELSE prevDeps
        /\ UNCHANGED <<capability, invoked, last>>

RunEffect(throws) ==
    LET call == [intent |-> Intent,
                 config |-> EffectConfig(pending.endpoint, Content(pending.ref))]
    IN  /\ pending # NoEffect
        /\ calls' = Append(calls, call)
        /\ threw' = throws
        /\ pending' = NoEffect
        /\ thrown' = IF throws THEN InitializerError ELSE thrown
        /\ prevDeps' = IF throws THEN NoDeps ELSE prevDeps
        /\ UNCHANGED <<capability, invoked, last>>

\* The host page binds or removes the global between two dispatches.
SetCapability(c) ==
    /\ pending = NoEffect
    /\ c # capability
    /\ capability' = c
    /\ UNCHANGED <<prevDeps, pending, calls, threw, invoked, last, thrown>>

\* The host unmounts the component; its next invocation is a first mount.
Unmount ==
    /\ Mounted
    /\ pending = NoEffect
    /\ prevDeps' = NoDeps
    /\ UNCHANGED <<capability, pending, calls, threw, invoked, last, thrown>>

Next ==
    \/ \E endpoint \in Endpoints, arg \in ConfigArgs : Render(endpoint, arg)
    \/ \E throws \in BOOLEAN : RunEffect(throws)
    \/ \E c \in Capabilities : SetCapability(c)
    \/ Unmount

Spec == Init /\ [][Next]_vars

\* ---------------------------------------------------------------------------
\* Steps, as seen from outside the hook
\* ---------------------------------------------------------------------------

\* A step in which the hook body was invoked: it records its arguments, its
\* error and, when it returns, one more entry of `invoked`.
RenderStep ==
    /\ pending = NoEffect
    /\ <<invoked, last, thrown>>' # <<invoked, last, thrown>>

\* A step in which the scheduled effect was flushed.
EffectStep == pending # NoEffect

\* The number of effects scheduled and not yet flushed.
Scheduled == IF pending # NoEffect THEN 1 ELSE 0

\* The full default configuration, as the caller of the initializer sees it.
ExpectedDefaultCall(endpoint) ==
    [intent |-> "create",
     config |->
        [action |-> endpoint,
         title |-> "How can I help?",
         fields |->
            << [type |-> "email", label |-> "Email:", name |-> "email",
                required |-> TRUE, placeholder |-> "yourbestemail@email.com"],
               [type |-> "textarea", label |-> "Message:", name |-> "message",
                placeholder |-> "What's on your mind?"],
               [type |-> "submit"] >>,
         styles |-> [title |-> [backgroundColor |-> "gray"],
                     button |-> [backgroundColor |-> "gray"]],
         initiallyVisible |-> FALSE]]

\* ---------------------------------------------------------------------------
\* Claims
\* ---------------------------------------------------------------------------

\* C1: every configuration passed to the external initializer has its action
\* equal to the endpoint argument of the invocation that scheduled the call,
\* also when the overrides set an action of their own.
C1_ActionIsEndpoint ==
    [][EffectStep =>
        /\ Len(calls') = Len(calls) + 1
        /\ calls'[Len(calls')].config.action = pending.endpoint]_vars

\* C2: an invocation made while the global is absent or not a function raises
\* the MissingRuntimeCapability error and makes no external call, whatever the
\* endpoint is (the capability check comes before the endpoint check).
C2_MissingCapabilityFirst ==
    [][RenderStep /\ capability # "function" =>
        /\ thrown' = MissingRuntimeCapability
        /\ calls' = calls
        /\ pending' = NoEffect]_vars

C2_Witness ==
    /\ thrown = MissingRuntimeCapability
    /\ capability = "undefined"
    /\ last.endpoint = Str("")
    /\ calls = << >>

\* C3: an invocation made while the global is a function, with an empty or
\* missing endpoint, raises the InvalidArgument error and makes no external
\* call, whatever the overrides are.
C3_InvalidEndpoint ==
    [][RenderStep /\ capability = "function"
           /\ last'.endpoint \in {Str(""), Undefined} =>
        /\ thrown' = InvalidArgument
        /\ calls' = calls
        /\ pending' = NoEffect]_vars

C3_Witness ==
    /\ thrown = InvalidArgument
    /\ capability = "function"
    /\ last.endpoint = Str("")
    /\ last.ref \in CallerRefs
    /\ calls = << >>

\* C4: the dispatched configuration takes every top-level key of the overrides
\* with the override's value whole and keeps the default value of every
\* default key the overrides leave out.
C4_ShallowMerge ==
    [][EffectStep =>
        /\ Len(calls') = Len(calls) + 1
        /\ LET c == calls'[Len(calls')].config
               o == Content(pending.ref)
           IN  /\ \A k \in DOMAIN o : c[k] = o[k]
               /\ \A k \in DOMAIN DefaultConfig \ DOMAIN o : c[k] = DefaultConfig[k]]_vars

C4_Witness ==
    /\ \E i \in 1 .. Len(calls) :
          /\ calls[i].config.fields = CallerObjects[2].fields
          /\ calls[i].config.styles = DefaultStyles
    /\ \E j \in 1 .. Len(calls) :
          /\ calls[j].config.styles = CallerObjects[1].styles
          /\ calls[j].config.fields = DefaultFields

\* C5: a first mount schedules one call; a re-invocation with the same endpoint
\* and the same overrides reference schedules none; a re-invocation with a
\* changed endpoint or overrides reference schedules one; and a scheduled call
\* is made exactly once, with the merge of the latest endpoint and overrides.
C5_OneCallPerChange ==
    [][/\ RenderStep /\ thrown' = NoError =>
            LET cur == invoked'[Len(invoked')]
            IN  /\ Len(invoked') = Len(invoked) + 1
                /\ calls' = calls
                /\ IF cur.mount
                   THEN pending' # NoEffect
                   ELSE LET prev == invoked[Len(invoked)]
                        IN  pending' # NoEffect <=>
                               (cur.endpoint # prev.endpoint \/ cur.ref # prev.ref)
       /\ EffectStep =>
            LET latest == invoked[Len(invoked)]
            IN  /\ pending' = NoEffect
                /\ calls' = Append(calls,
                       [intent |-> "create",
                        config |-> EffectConfig(latest.endpoint, Content(latest.ref))])
      ]_vars

C5_Witness ==
    /\ Len(invoked) = 3
    /\ pending = NoEffect
    /\ ~invoked[2].mount /\ ~invoked[3].mount
    /\ invoked[2].endpoint = invoked[1].endpoint /\ invoked[2].ref = invoked[1].ref
    /\ invoked[3].endpoint = invoked[2].endpoint /\ invoked[3].ref # invoked[2].ref
    /\ invoked[3].ref \in CallerRefs /\ invoked[2].ref \in CallerRefs
    /\ Len(calls) = 2

\* C6: the two checks run on every invocation, re-invocations of a mounted
\* hook included: with the global gone the re-invocation raises
\* MissingRuntimeCapability, with an empty endpoint it raises InvalidArgument,
\* and in both cases no external call is made.
C6_ChecksNotMemoized ==
    [][RenderStep /\ Mounted =>
        /\ capability # "function" =>
              thrown' = MissingRuntimeCapability /\ calls' = calls /\ pending' = NoEffect
        /\ capability = "function" /\ last'.endpoint \in {Str(""), Undefined} =>
              thrown' = InvalidArgument /\ calls' = calls /\ pending' = NoEffect]_vars

C6_Witness ==
    /\ thrown = MissingRuntimeCapability
    /\ last.rerender
    /\ Len(invoked) >= 1
    /\ last.endpoint = invoked[Len(invoked)].endpoint
    /\ last.ref = invoked[Len(invoked)].ref
    /\ Len(calls) = 1

\* C7: an invocation without overrides schedules, on first mount, one call, and
\* that call has the intent "create" and exactly the full default
\* configuration with action = endpoint; every call has the intent "create".
C7_DefaultCreateCall ==
    [][/\ \A i \in 1 .. Len(calls') : calls'[i].intent = "create"
       /\ RenderStep /\ thrown' = NoError /\ ~Mounted /\ last'.ref \notin CallerRefs =>
            pending' # NoEffect /\ calls' = calls
       /\ EffectStep /\ pending.ref \notin CallerRefs =>
            calls' = Append(calls, ExpectedDefaultCall(pending.endpoint))
      ]_vars

C7_Witness ==
    /\ Len(invoked) = 1
    /\ invoked[1].mount
    /\ invoked[1].ref \notin CallerRefs
    /\ calls = << ExpectedDefaultCall(Str("https://formspree.io/f/endpoint1")) >>

\* C8: the calls of the external initializer are, in order, the merged
\* configurations of the dependency changes the host observed (the mounts and
\* the re-invocations whose pair differs from the previous one), one call per
\* change, the change whose effect is still scheduled excepted.
C8_CallsFollowChanges ==
    LET pair(i) == <<invoked[i].endpoint, invoked[i].ref>>
        changes == { i \in 1 .. Len(invoked) :
                        \/ invoked[i].mount
                        \/ pair(i) # pair(i - 1) }
        kth(k) == CHOOSE i \in changes :
                        Cardinality({ j \in changes : j <= i }) = k
    IN  /\ Len(calls) = Cardinality(changes) - Scheduled
        /\ \A k \in 1 .. Len(calls) :
              calls[k].config =
                 EffectConfig(invoked[kth(k)].endpoint, Content(invoked[kth(k)].ref))

C8_Witness ==
    /\ Len(invoked) = 3
    /\ Len(calls) = 2
    /\ pending = NoEffect
    /\ calls[1].config # calls[2].config
    /\ calls[1].config.title = "Custom Title"
    /\ calls[2].config.title = "How can I help?"

\* C9: when the external initializer throws, its error leaves the layer as it
\* is, and the initializer has been called exactly once for that effect: no
\* second call is made and no effect stays scheduled.
C9_InitializerErrorPropagates ==
    [][EffectStep =>
        /\ Len(calls') = Len(calls) + 1
        /\ pending' = NoEffect
        /\ threw' => thrown' = InitializerError]_vars

C9_Witness ==
    /\ threw
    /\ thrown = InitializerError
    /\ Len(calls) = 1
    /\ Len(invoked) = 1
    /\ pending = NoEffect

\* C10: an invocation that leaves the overrides out always schedules a call,
\* also when the endpoint is unchanged, and while every invocation left the
\* overrides out the calls made or scheduled are as many as the invocations
\* that returned.
C10_OmittedOverridesAlwaysRerun ==
    [][/\ RenderStep /\ thrown' = NoError /\ last'.ref \notin CallerRefs =>
            pending' # NoEffect
       /\ (\A i \in 1 .. Len(invoked') : invoked'[i].ref \notin CallerRefs) =>
            Len(calls') + Scheduled' = Len(invoked')
      ]_vars

C10_Witness ==
    /\ Len(invoked) = 3
    /\ \A i \in 1 .. 3 : invoked[i].ref \notin CallerRefs
    /\ \A i \in 2 .. 3 : ~invoked[i].mount /\ invoked[i].endpoint = invoked[1].endpoint
    /\ Len(calls) = 3

====
